---- MODULE Spec2Model ----
(***************************************************************************)
(* A model of controller_mapper.py: the ControllerMapper class (mapping    *)
(* tables, the Snapshot `current_input`, _process_gamepad_event, the       *)
(* background _input_loop, start/stop/cleanup, connect_controller) and the *)
(* top-level main().  The virtual controller endpoint (Nxbt) and the       *)
(* device layer (inputs.get_gamepad) are external: they are modelled by    *)
(* the interface the specification gives for them.                         *)
(***************************************************************************)
EXTENDS Integers, Sequences, FiniteSets, TLC

VARIABLES
    test_mode,       \* self.test_mode
    current_input,   \* self.current_input, the Snapshot
    running,         \* self.running
    input_thread,    \* self.input_thread: "None" or "Thread"
    controller_idx,  \* self.controller_idx: "None" or a session id
    wpc,             \* position of the background worker in _input_loop
    events,          \* the events of the current pull not yet processed
    cpc,             \* position of the control context
    caller,          \* who drives the control context: "main" or "client"
    raised,          \* the exception that left connect_controller, if any
    nx_state,        \* the endpoint's reported lifecycle of the session
    nx_errors,       \* the endpoint's reported error detail
    pushed,          \* <<snapshot>> of the last push_input call, or << >>
    npush,           \* number of push_input calls made
    nproc,           \* number of raw events processed
    last,            \* the raw event processed most recently
    twice,           \* the two most recent processed events were equal
    alive            \* number of worker threads started and not finished

vars == <<test_mode, current_input, running, input_thread, controller_idx,
          wpc, events, cpc, caller, raised, nx_state, nx_errors,
          pushed, npush, nproc, last, twice, alive>>

-----------------------------------------------------------------------------
(* Bounds of the model.                                                    *)

\* Raw events processed in one behaviour.
MaxEvents == 3

\* Raw events one device pull returns at most.
MaxPull == 2

\* Raw events applied in one behaviour of the translation engine alone.
MaxApplied == 2

-----------------------------------------------------------------------------
(* Mapping tables, ControllerMapper.__init__.                              *)

button_mappings ==
    [c \in {"BTN_SOUTH", "BTN_EAST", "BTN_NORTH", "BTN_WEST", "BTN_TL",
            "BTN_TR", "BTN_TL2", "BTN_TR2", "BTN_START", "BTN_SELECT",
            "BTN_MODE"} |->
        CASE c = "BTN_SOUTH"  -> "B"
          [] c = "BTN_EAST"   -> "A"
          [] c = "BTN_NORTH"  -> "X"
          [] c = "BTN_WEST"   -> "Y"
          [] c = "BTN_TL"     -> "L"
          [] c = "BTN_TR"     -> "R"
          [] c = "BTN_TL2"    -> "ZL"
          [] c = "BTN_TR2"    -> "ZR"
          [] c = "BTN_START"  -> "PLUS"
          [] c = "BTN_SELECT" -> "MINUS"
          [] c = "BTN_MODE"   -> "HOME"]

stick_mappings ==
    [c \in {"ABS_X", "ABS_Y", "ABS_RX", "ABS_RY"} |->
        CASE c = "ABS_X"  -> <<"L_STICK", "x">>
          [] c = "ABS_Y"  -> <<"L_STICK", "y">>
          [] c = "ABS_RX" -> <<"R_STICK", "x">>
          [] c = "ABS_RY" -> <<"R_STICK", "y">>]

trigger_mappings ==
    [c \in {"ABS_Z", "ABS_RZ"} |->
        CASE c = "ABS_Z"  -> "ZL"
          [] c = "ABS_RZ" -> "ZR"]

\* The button identifiers of the Snapshot and its two sticks.
Buttons ==
    {"B", "A", "X", "Y", "L", "R", "ZL", "ZR", "PLUS", "MINUS", "HOME",
     "DPAD_UP", "DPAD_DOWN", "DPAD_LEFT", "DPAD_RIGHT"}

Sticks == {"L_STICK", "R_STICK"}

\* nx.create_input_packet(): every button released, both sticks centered.
create_input_packet ==
    [k \in Buttons \cup Sticks |->
        IF k \in Buttons THEN FALSE ELSE [X_VALUE |-> 0, Y_VALUE |-> 0]]

-----------------------------------------------------------------------------
(* Event normalisation.                                                    *)

\* Native range of a trigger and of a stick axis.
TriggerRange == 255
StickRange == 32767
StickMin == -32768
Scale == 100
Threshold == 50

\* Python's int() on a quotient: truncation toward zero.  On the native
\* ranges the float expression int((state / d) * 100) equals the exact
\* truncated quotient of state*100 by d.
IntDiv(n, d) == IF n >= 0 THEN n \div d ELSE -((-n) \div d)

\* A variant that rounds to nearest instead of truncating.
TriggerValueRounded(state) ==
    (2 * state * Scale + TriggerRange) \div (2 * TriggerRange)

\* value = int((event.state / 255) * 100)
TriggerValue(state) == IntDiv(state * Scale, TriggerRange)

\* value > 50
TriggerPressed(state) == TriggerValue(state) > Threshold

\* A variant that forgets to invert the y axis.
StickValueNoInvert(axis, state) == IntDiv(state * Scale, StickRange)

\* A variant that rounds the magnitude up instead of truncating.
StickValueRoundUp(axis, state) ==
    LET value == IF state >= 0
                 THEN (state * Scale + StickRange - 1) \div StickRange
                 ELSE -(((-state) * Scale + StickRange - 1) \div StickRange)
    IN  IF axis = "y" THEN -value ELSE value

\* value = int((event.state / 32767) * 100); if axis == 'y': value = -value
StickValue(axis, state) ==
    LET value == IntDiv(state * Scale, StickRange)
    IN  IF axis = "y" THEN -value ELSE value

-----------------------------------------------------------------------------
(* _process_gamepad_event: the new Snapshot and whether                    *)
(* nx.set_controller_input is called, for one raw event.                   *)

Result(input, push) == [input |-> input, push |-> push]

\* A variant that latches a mapped button as pressed whatever the value.
ApplyKeyLatch(ci, e) ==
    IF e.code \in DOMAIN button_mappings
    THEN Result([ci EXCEPT ![button_mappings[e.code]] = TRUE], TRUE)
    ELSE Result(ci, FALSE)

\* A variant that pushes only when the mapped button changed.
ApplyKeyDirty(ci, e) ==
    IF e.code \in DOMAIN button_mappings
    THEN Result([ci EXCEPT ![button_mappings[e.code]] = (e.state = 1)],
                ci[button_mappings[e.code]] # (e.state = 1))
    ELSE Result(ci, FALSE)

\* if event.ev_type == 'Key': if event.code in self.button_mappings: ...
ApplyKey(ci, e) ==
    IF e.code \in DOMAIN button_mappings
    THEN Result([ci EXCEPT ![button_mappings[e.code]] = (e.state = 1)], TRUE)
    ELSE Result(ci, FALSE)

\* if event.code in self.trigger_mappings: ... set_controller_input; return
ApplyTrigger(ci, e) ==
    Result([ci EXCEPT ![trigger_mappings[e.code]] = TriggerPressed(e.state)],
           TRUE)

\* A variant of the d-pad branch that presses RIGHT on any nonzero value.
ApplyHatXNonzero(ci, e) ==
    Result([ci EXCEPT !["DPAD_LEFT"] = (e.state = -1),
                      !["DPAD_RIGHT"] = (e.state # 0)], FALSE)

\* if event.code == 'ABS_HAT0X': ... (no set_controller_input call)
ApplyHatX(ci, e) ==
    Result([ci EXCEPT !["DPAD_LEFT"] = (e.state = -1),
                      !["DPAD_RIGHT"] = (e.state = 1)], FALSE)

\* elif event.code == 'ABS_HAT0Y': ... (no set_controller_input call)
ApplyHatY(ci, e) ==
    Result([ci EXCEPT !["DPAD_UP"] = (e.state = -1),
                      !["DPAD_DOWN"] = (e.state = 1)], FALSE)

\* A variant that adds the sample to the stored position.
ApplyStickAccumulate(ci, e) ==
    LET stick_name == stick_mappings[e.code][1]
        axis == stick_mappings[e.code][2]
        value == StickValue(axis, e.state)
    IN  IF axis = "x"
        THEN Result([ci EXCEPT ![stick_name].X_VALUE = @ + value], TRUE)
        ELSE Result([ci EXCEPT ![stick_name].Y_VALUE = @ + value], TRUE)

\* elif event.code in self.stick_mappings: ... set_controller_input
ApplyStick(ci, e) ==
    LET stick_name == stick_mappings[e.code][1]
        axis == stick_mappings[e.code][2]
        value == StickValue(axis, e.state)
    IN  IF axis = "x"
        THEN Result([ci EXCEPT ![stick_name].X_VALUE = value], TRUE)
        ELSE Result([ci EXCEPT ![stick_name].Y_VALUE = value], TRUE)

\* A variant that pushes the Snapshot for an event matching no table.
UnmappedPush(ci, e) == Result(ci, TRUE)

\* An event matching no branch: nothing is assigned, nothing is pushed.
Unmapped(ci, e) == Result(ci, FALSE)

\* The branch structure of _process_gamepad_event outside test mode.
Translate(ci, e) ==
    IF e.ev_type = "Key" THEN
        IF e.code \in DOMAIN button_mappings THEN ApplyKey(ci, e)
        ELSE Unmapped(ci, e)
    ELSE IF e.ev_type = "Absolute" THEN
        IF e.code \in DOMAIN trigger_mappings THEN ApplyTrigger(ci, e)
        ELSE IF e.code = "ABS_HAT0X" THEN ApplyHatX(ci, e)
        ELSE IF e.code = "ABS_HAT0Y" THEN ApplyHatY(ci, e)
        ELSE IF e.code \in DOMAIN stick_mappings THEN ApplyStick(ci, e)
        ELSE Unmapped(ci, e)
    ELSE Unmapped(ci, e)

\* A variant that translates the event in test mode too.
ProcessIgnoringTestMode(ci, e, tm) == Translate(ci, e)

\* if self.test_mode: print(...); return
ProcessGamepadEvent(ci, e, tm) ==
    IF tm THEN Result(ci, FALSE) ELSE Translate(ci, e)

-----------------------------------------------------------------------------
(* Raw events the device layer can yield.                                  *)

Event(t, c, s) == [ev_type |-> t, code |-> c, state |-> s]

\* No event processed yet.
NoEvent == Event("None", "None", 0)

\* Discrete events: every mapped button and an unmapped one.
KeyEvents ==
    {Event("Key", c, s) : c \in DOMAIN button_mappings \cup {"BTN_THUMBL"},
                          s \in {0, 1}}

\* Trigger samples around the threshold.
TriggerEvents ==
    {Event("Absolute", c, s) : c \in DOMAIN trigger_mappings,
                               s \in {0, 130, 131, 255}}

\* The two d-pad hat axes.
HatEvents ==
    {Event("Absolute", c, s) : c \in {"ABS_HAT0X", "ABS_HAT0Y"},
                               s \in {-1, 0, 1}}

\* Stick samples: both ends of the native range, the centre, a small one.
StickEvents ==
    {Event("Absolute", c, s) : c \in DOMAIN stick_mappings,
                               s \in {StickMin, 0, 500, StickRange}}

\* Events matching no table: an unmapped axis, a synchronisation report,
\* and mapped identifiers arriving with the other kind.
OtherEvents ==
    {Event("Absolute", "ABS_HAT1X", 1), Event("Sync", "SYN_REPORT", 0),
     Event("Absolute", "BTN_SOUTH", 1), Event("Key", "ABS_X", 1)}

AllEvents == KeyEvents \cup TriggerEvents \cup HatEvents \cup StickEvents
                 \cup OtherEvents

\* A small alphabet with events of each kind, for the lifecycle.
FewEvents ==
    {Event("Key", "BTN_SOUTH", 1), Event("Key", "BTN_SOUTH", 0),
     Event("Absolute", "ABS_Z", 255), Event("Absolute", "ABS_HAT0X", -1),
     Event("Absolute", "ABS_HAT0X", 1), Event("Absolute", "ABS_Y", StickRange),
     Event("Absolute", "ABS_RX", 500), Event("Sync", "SYN_REPORT", 0)}

\* Every trigger and stick sample of the native ranges.
RangeEvents ==
    {Event("Absolute", c, s) : c \in DOMAIN trigger_mappings,
                               s \in 0..TriggerRange}
    \cup {Event("Absolute", c, s) : c \in DOMAIN stick_mappings,
                                    s \in StickMin..StickRange}

Min(a, b) == IF a <= b THEN a ELSE b

\* The sequences over A of length at most n.
SeqsUpTo(A, n) == UNION {[1..k -> A] : k \in 0..n}

-----------------------------------------------------------------------------
(* The virtual controller endpoint (Nxbt), by its interface.               *)

NxStates == {"absent", "connecting", "connected", "crashed", "removed"}

ErrorDetails == {"bt_adapter_lost", "pairing_refused"}

NoException == [type |-> "None", detail |-> ""]

\* nx.create_controller: a new session, not yet connected.
NxCreateController ==
    /\ controller_idx' = "c0"
    /\ nx_state' = "connecting"
    /\ nx_errors' = ""

\* nx.remove_controller: the session is released.
NxRemoveController == nx_state' = "removed"

\* The outcomes of a push_input call: it fails when there is no session,
\* may fail while the session is not connected, succeeds when connected.
PushOutcomes ==
    IF controller_idx = "None" \/ nx_state \in {"absent", "removed"}
    THEN {FALSE}
    ELSE IF nx_state = "connected" THEN {TRUE} ELSE {TRUE, FALSE}

\* The endpoint reports the session connected.
NxConnects ==
    /\ nx_state = "connecting"
    /\ nx_state' = "connected"
    /\ UNCHANGED <<test_mode, current_input, running, input_thread,
                   controller_idx, wpc, events, cpc, caller, raised,
                   nx_errors, pushed, npush, nproc, last, twice, alive>>

\* The endpoint reports the session crashed, with an error detail.
NxCrashes ==
    /\ nx_state \in {"connecting", "connected"}
    /\ nx_state' = "crashed"
    /\ \E d \in ErrorDetails : nx_errors' = d
    /\ UNCHANGED <<test_mode, current_input, running, input_thread,
                   controller_idx, wpc, events, cpc, caller, raised,
                   pushed, npush, nproc, last, twice, alive>>

-----------------------------------------------------------------------------
(* The background worker: _input_loop.                                     *)

ctl == <<test_mode, running, input_thread, controller_idx, cpc, caller,
         raised, nx_state, nx_errors>>

hist == <<pushed, npush, nproc, last, twice>>

\* A variant of the error handler that lets the exception end the thread.
ErrorTargetExit == "exited"

\* except Exception: log, time.sleep(0.1), and back to the loop condition.
ErrorTarget == "sleep"

\* while self.running:
W_check ==
    /\ wpc = "check"
    /\ wpc' = IF running THEN "pull" ELSE "exited"
    /\ alive' = IF running THEN alive ELSE alive - 1
    /\ UNCHANGED <<current_input, events>>
    /\ UNCHANGED ctl
    /\ UNCHANGED hist

\* events = inputs.get_gamepad(): zero or more events are returned.
W_pull(A, max) ==
    /\ wpc = "pull"
    /\ \E evs \in SeqsUpTo(A, Min(MaxPull, max - nproc)) : events' = evs
    /\ wpc' = "for"
    /\ UNCHANGED <<current_input, alive>>
    /\ UNCHANGED ctl
    /\ UNCHANGED hist

\* events = inputs.get_gamepad(): the first pull returns one event.
W_pull_one(A) ==
    /\ wpc = "pull"
    /\ nproc = 0
    /\ \E e \in A : events' = <<e>>
    /\ wpc' = "for"
    /\ UNCHANGED <<current_input, alive>>
    /\ UNCHANGED ctl
    /\ UNCHANGED hist

\* inputs.get_gamepad() raises: the handler is entered.
W_pull_error ==
    /\ wpc = "pull"
    /\ wpc' = ErrorTarget
    /\ events' = << >>
    /\ UNCHANGED <<current_input, alive>>
    /\ UNCHANGED ctl
    /\ UNCHANGED hist

\* One turn of the for loop with e the event taken and rest the events
\* left: self._process_gamepad_event(e); a failing set_controller_input
\* abandons the rest of the pull.
ProcessTurn(e, rest) ==
    LET r == ProcessGamepadEvent(current_input, e, test_mode)
    IN  /\ current_input' = r.input
        /\ nproc' = nproc + 1
        /\ last' = e
        /\ twice' = (last = e)
        /\ IF r.push
           THEN /\ npush' = npush + 1
                /\ pushed' = <<r.input>>
                /\ \E ok \in PushOutcomes :
                     IF ok
                     THEN /\ events' = rest
                          /\ wpc' = "for"
                     ELSE /\ events' = << >>
                          /\ wpc' = ErrorTarget
           ELSE /\ UNCHANGED <<npush, pushed>>
                /\ events' = rest
                /\ wpc' = "for"

\* for event in events: self._process_gamepad_event(event)
W_process ==
    /\ wpc = "for"
    /\ events # << >>
    /\ ProcessTurn(Head(events), Tail(events))
    /\ UNCHANGED alive
    /\ UNCHANGED ctl

\* The for loop over the pulled events is exhausted.
W_endfor ==
    /\ wpc = "for"
    /\ events = << >>
    /\ wpc' = "check"
    /\ UNCHANGED <<current_input, events, alive>>
    /\ UNCHANGED ctl
    /\ UNCHANGED hist

\* A variant of the pause that gives up the loop by clearing the flag.
W_sleepClearsFlag ==
    /\ wpc = "sleep"
    /\ wpc' = "check"
    /\ running' = FALSE
    /\ UNCHANGED <<current_input, events, alive>>
    /\ UNCHANGED <<test_mode, input_thread, controller_idx, cpc, caller,
                   raised, nx_state, nx_errors>>
    /\ UNCHANGED hist

\* time.sleep(0.1) returns.
W_sleep ==
    /\ wpc = "sleep"
    /\ wpc' = "check"
    /\ UNCHANGED <<current_input, events, alive>>
    /\ UNCHANGED ctl
    /\ UNCHANGED hist

-----------------------------------------------------------------------------
(* The control context: connect_controller, start_input_processing,        *)
(* stop_input_processing, cleanup, and main() or a client calling them.    *)

wrk == <<current_input, wpc, events, alive>>

\* Where the control context continues when a method returns.
Return(method) ==
    IF caller = "client" THEN "client"
    ELSE CASE method = "connect" -> "start"
           [] method = "start"   -> "idle"
           [] method = "cleanup" -> "done"

\* Where it continues when connect_controller raises: main()'s finally
\* clause runs cleanup; a client catches the exception.
Unwind == IF caller = "client" THEN "client" ELSE "cleanup"

\* A variant of main() that starts the loop without connecting.
M_trySkipConnect ==
    /\ cpc = "main"
    /\ cpc' = "start"
    /\ UNCHANGED <<test_mode, running, input_thread, controller_idx, caller,
                   raised, nx_state, nx_errors>>
    /\ UNCHANGED wrk
    /\ UNCHANGED hist

\* main(): if not args.test: await mapper.connect_controller()
M_try ==
    /\ cpc = "main"
    /\ cpc' = IF test_mode THEN "start" ELSE "connect"
    /\ UNCHANGED <<test_mode, running, input_thread, controller_idx, caller,
                   raised, nx_state, nx_errors>>
    /\ UNCHANGED wrk
    /\ UNCHANGED hist

\* connect_controller: create the session, or return 0 in test mode.
Connect_enter ==
    /\ cpc = "connect"
    /\ IF ~test_mode
       THEN NxCreateController /\ cpc' = "poll"
       ELSE /\ cpc' = Return("connect")
            /\ UNCHANGED <<controller_idx, nx_state, nx_errors>>
    /\ UNCHANGED <<test_mode, running, input_thread, caller, raised>>
    /\ UNCHANGED wrk
    /\ UNCHANGED hist

\* A variant that leaves the polling loop on 'crashed' as on 'connected'.
PollCrashedReturns ==
    /\ raised' = raised
    /\ cpc' = Return("connect")

\* elif state == 'crashed': raise ConnectionError(... ['errors'])
PollCrashed ==
    /\ raised' = [type |-> "ConnectionError", detail |-> nx_errors]
    /\ cpc' = Unwind

\* One turn of the polling loop of connect_controller.
Connect_poll ==
    /\ cpc = "poll"
    /\ IF nx_state = "connected"
       THEN cpc' = Return("connect") /\ UNCHANGED raised
       ELSE IF nx_state = "crashed"
       THEN PollCrashed
       ELSE cpc' = "poll_sleep" /\ UNCHANGED raised
    /\ UNCHANGED <<test_mode, running, input_thread, controller_idx, caller,
                   nx_state, nx_errors>>
    /\ UNCHANGED wrk
    /\ UNCHANGED hist

\* await asyncio.sleep(0.1) returns.
Connect_wake ==
    /\ cpc = "poll_sleep"
    /\ cpc' = "poll"
    /\ UNCHANGED <<test_mode, running, input_thread, controller_idx, caller,
                   raised, nx_state, nx_errors>>
    /\ UNCHANGED wrk
    /\ UNCHANGED hist

\* main() is interrupted at one of its await points: the finally clause.
M_interrupt ==
    /\ caller = "main"
    /\ cpc \in {"poll_sleep", "idle"}
    /\ cpc' = "cleanup"
    /\ UNCHANGED <<test_mode, running, input_thread, controller_idx, caller,
                   raised, nx_state, nx_errors>>
    /\ UNCHANGED wrk
    /\ UNCHANGED hist

\* main(): while True: await asyncio.sleep(1)
M_idle ==
    /\ caller = "main"
    /\ cpc = "idle"
    /\ cpc' = "idle"
    /\ UNCHANGED <<test_mode, running, input_thread, controller_idx, caller,
                   raised, nx_state, nx_errors>>
    /\ UNCHANGED wrk
    /\ UNCHANGED hist

\* A variant of start that also resets the Snapshot.
StartResetsInput ==
    /\ cpc = "start"
    /\ IF input_thread # "None"
       THEN UNCHANGED <<running, input_thread, wpc, events, alive>>
       ELSE /\ running' = TRUE
            /\ input_thread' = "Thread"
            /\ wpc' = "check"
            /\ events' = << >>
            /\ alive' = alive + 1
    /\ current_input' = create_input_packet
    /\ cpc' = Return("start")
    /\ UNCHANGED <<test_mode, controller_idx, caller, raised, nx_state,
                   nx_errors>>
    /\ UNCHANGED hist

\* A variant of start without the check for an existing thread.
StartNoGuard ==
    /\ cpc = "start"
    /\ running' = TRUE
    /\ input_thread' = "Thread"
    /\ wpc' = "check"
    /\ events' = << >>
    /\ alive' = alive + 1
    /\ cpc' = Return("start")
    /\ UNCHANGED <<test_mode, current_input, controller_idx, caller, raised,
                   nx_state, nx_errors>>
    /\ UNCHANGED hist

\* start_input_processing
Start ==
    /\ cpc = "start"
    /\ IF input_thread # "None"
       THEN UNCHANGED <<running, input_thread, wpc, events, alive>>
       ELSE /\ running' = TRUE
            /\ input_thread' = "Thread"
            /\ wpc' = "check"
            /\ events' = << >>
            /\ alive' = alive + 1
    /\ cpc' = Return("start")
    /\ UNCHANGED <<test_mode, current_input, controller_idx, caller, raised,
                   nx_state, nx_errors>>
    /\ UNCHANGED hist

\* A variant of stop that joins without clearing the running flag.
StopClearKeepsFlag(at, joining, after) ==
    /\ cpc = at
    /\ cpc' = IF input_thread # "None" THEN joining ELSE after
    /\ UNCHANGED <<test_mode, running, input_thread, controller_idx, caller,
                   raised, nx_state, nx_errors>>
    /\ UNCHANGED wrk
    /\ UNCHANGED hist

\* stop_input_processing: self.running = False
StopClear(at, joining, after) ==
    /\ cpc = at
    /\ running' = FALSE
    /\ cpc' = IF input_thread # "None" THEN joining ELSE after
    /\ UNCHANGED <<test_mode, input_thread, controller_idx, caller, raised,
                   nx_state, nx_errors>>
    /\ UNCHANGED wrk
    /\ UNCHANGED hist

\* A variant of the join that does not wait for the worker.
StopJoinNoWait(joining, after) ==
    /\ cpc = joining
    /\ input_thread' = "None"
    /\ cpc' = after
    /\ UNCHANGED <<test_mode, running, controller_idx, caller, raised,
                   nx_state, nx_errors>>
    /\ UNCHANGED wrk
    /\ UNCHANGED hist

\* stop_input_processing: self.input_thread.join(); self.input_thread = None
StopJoin(joining, after) ==
    /\ cpc = joining
    /\ wpc = "exited"
    /\ input_thread' = "None"
    /\ cpc' = after
    /\ UNCHANGED <<test_mode, running, controller_idx, caller, raised,
                   nx_state, nx_errors>>
    /\ UNCHANGED wrk
    /\ UNCHANGED hist

\* stop_input_processing called by a client.
Stop_clear == StopClear("stop", "join", "client")
Stop_join == StopJoin("join", "client")

\* cleanup: self.stop_input_processing()
Cleanup_clear == StopClear("cleanup", "cleanup_join", "release")

\* A variant of cleanup that releases without waiting for the worker.
Cleanup_joinNoWait == StopJoinNoWait("cleanup_join", "release")

Cleanup_join == StopJoin("cleanup_join", "release")

\* cleanup: if self.controller_idx is not None: nx.remove_controller(...)
Cleanup_release ==
    /\ cpc = "release"
    /\ IF controller_idx # "None"
       THEN NxRemoveController
       ELSE UNCHANGED nx_state
    /\ cpc' = Return("cleanup")
    /\ UNCHANGED <<test_mode, running, input_thread, controller_idx, caller,
                   raised, nx_errors>>
    /\ UNCHANGED wrk
    /\ UNCHANGED hist

\* A client of the class calls one of its methods.
Client_call ==
    /\ cpc = "client"
    /\ \E m \in {"connect", "start", "stop", "cleanup"} :
         /\ m = "connect" => controller_idx = "None"
         /\ cpc' = m
    /\ UNCHANGED <<test_mode, running, input_thread, controller_idx, caller,
                   raised, nx_state, nx_errors>>
    /\ UNCHANGED wrk
    /\ UNCHANGED hist

-----------------------------------------------------------------------------
(* Specifications.                                                         *)

\* The state after ControllerMapper.__init__.
Constructed ==
    /\ test_mode \in BOOLEAN
    /\ current_input = create_input_packet
    /\ running = FALSE
    /\ input_thread = "None"
    /\ controller_idx = "None"
    /\ wpc = "none"
    /\ events = << >>
    /\ raised = NoException
    /\ nx_state = "absent"
    /\ nx_errors = ""
    /\ pushed = << >>
    /\ npush = 0
    /\ nproc = 0
    /\ last = NoEvent
    /\ twice = FALSE
    /\ alive = 0

Worker(A, max) ==
    \/ W_check
    \/ W_pull(A, max)
    \/ W_pull_error
    \/ W_process
    \/ W_endfor
    \/ W_sleep

Connect == Connect_enter \/ Connect_poll \/ Connect_wake

Cleanup == Cleanup_clear \/ Cleanup_join \/ Cleanup_release

Endpoint == NxConnects \/ NxCrashes

\* The top-level run: main().
Init == Constructed /\ caller = "main" /\ cpc = "main"

Next ==
    \/ M_try
    \/ Connect
    \/ M_interrupt
    \/ M_idle
    \/ Start
    \/ Cleanup
    \/ Endpoint
    \/ Worker(FewEvents, MaxEvents)

Spec == Init /\ [][Next]_vars

\* The top-level run with a fairly scheduled worker, a device pull that
\* always returns (normally or with an error), and a control context that
\* goes on with the steps of cleanup.
Fairness ==
    /\ WF_vars(W_check)
    /\ WF_vars(W_pull(FewEvents, MaxEvents) \/ W_pull_error)
    /\ WF_vars(W_process)
    /\ WF_vars(W_endfor)
    /\ WF_vars(W_sleep)
    /\ WF_vars(Cleanup)

SpecLive == Init /\ [][Next]_vars /\ Fairness

\* A client calling the methods of the class in any order.
InitClient == Constructed /\ caller = "client" /\ cpc = "client"

NextClient ==
    \/ Client_call
    \/ Connect
    \/ Start
    \/ Stop_clear
    \/ Stop_join
    \/ Cleanup
    \/ Endpoint
    \/ Worker(FewEvents, MaxEvents)

SpecClient == InitClient /\ [][NextClient]_vars

\* The translation engine alone: the worker of a started mapper processes
\* events of the whole alphabet while the control context idles in main().
InitEngine ==
    /\ test_mode \in BOOLEAN
    /\ current_input = create_input_packet
    /\ running = TRUE
    /\ input_thread = "Thread"
    /\ controller_idx = IF test_mode THEN "None" ELSE "c0"
    /\ wpc = "check"
    /\ events = << >>
    /\ cpc = "idle"
    /\ caller = "main"
    /\ raised = NoException
    /\ nx_state = IF test_mode THEN "absent" ELSE "connected"
    /\ nx_errors = ""
    /\ pushed = << >>
    /\ npush = 0
    /\ nproc = 0
    /\ last = NoEvent
    /\ twice = FALSE
    /\ alive = 1

NextEngine == NxCrashes \/ Worker(AllEvents, MaxApplied)

SpecEngine == InitEngine /\ [][NextEngine]_vars

\* The normalisation over the whole native ranges: the worker of a started
\* mapper processes one trigger or stick sample.
NextRange ==
    \/ W_check
    \/ W_pull_one(RangeEvents)
    \/ W_process
    \/ W_endfor

InitRange == InitEngine /\ ~test_mode

SpecRange == InitRange /\ [][NextRange]_vars

-----------------------------------------------------------------------------
(* Properties of the translation engine.                                   *)

\* This step processes one raw event, the head of the pending events.
Processing == nproc' = nproc + 1

\* The event's identifier is in none of the tables.
Unrouted(e) ==
    /\ e.code \notin DOMAIN button_mappings
    /\ e.code \notin DOMAIN trigger_mappings
    /\ e.code \notin DOMAIN stick_mappings
    /\ e.code \notin {"ABS_HAT0X", "ABS_HAT0Y"}

\* C1 (as claimed): every event that changes a Snapshot field makes exactly
\* one push_input call carrying the updated Snapshot, so the last pushed
\* Snapshot is the current one.  (The d-pad branch assigns two buttons and
\* returns without calling set_controller_input.)
C1_ChangePushedOnce ==
    /\ [][current_input' # current_input =>
            (npush' = npush + 1 /\ pushed' = <<current_input'>>)]_vars
    /\ [](current_input # create_input_packet => pushed = <<current_input>>)

\* C2: outside test mode, a Key event whose identifier is in the button map
\* sets the mapped button to (value = 1) and leaves every other button and
\* both sticks as they were.
C2_ButtonEventFrame ==
    [][(Processing /\ ~test_mode /\ Head(events).ev_type = "Key"
            /\ Head(events).code \in DOMAIN button_mappings) =>
        LET e == Head(events)
            b == button_mappings[e.code]
        IN  /\ current_input'[b] = (e.state = 1)
            /\ \A k \in (Buttons \cup Sticks) \ {b} :
                 current_input'[k] = current_input[k]]_vars

\* C2 witness: a mapped button was pressed in a Snapshot whose left stick
\* had been moved, and the stick kept its position.
C2_Witness ==
    /\ ~test_mode
    /\ last = Event("Key", "BTN_EAST", 1)
    /\ current_input["A"]
    /\ current_input["L_STICK"].X_VALUE # 0

\* Round to nearest of n/d (d > 0), and a clamp.
RoundDiv(n, d) == (2 * n + d) \div (2 * d)
Clamp(x, lo, hi) == IF x < lo THEN lo ELSE IF x > hi THEN hi ELSE x

\* The trigger event of this step, when it processes one.
TriggerStep ==
    /\ Processing
    /\ ~test_mode
    /\ Head(events).ev_type = "Absolute"
    /\ Head(events).code \in DOMAIN trigger_mappings

\* C3 (as claimed): a trigger event with native value v in 0..255 presses
\* the mapped button exactly when round(v*100/255) > 50.
C3_TriggerRounded ==
    [][TriggerStep =>
        LET e == Head(events)
        IN  current_input'[trigger_mappings[e.code]]
                = (RoundDiv(e.state * 100, 255) > 50)]_vars

\* C3 (amended): a trigger event with native value v in 0..255 presses the
\* mapped button exactly when v*100/255 truncated to an integer exceeds 50,
\* that is exactly when v >= 131; 0 and 127 release it and 255 presses it.
C3_TriggerTruncated ==
    [][TriggerStep =>
        LET e == Head(events)
            pressed == current_input'[trigger_mappings[e.code]]
        IN  /\ pressed = (e.state >= 131)
            /\ pressed = (\E q \in 51..100 :
                            q * 255 <= e.state * 100
                              /\ e.state * 100 < (q + 1) * 255)
            /\ e.state \in {0, 127} => ~pressed
            /\ e.state = 255 => pressed]_vars

\* C3 witness: native value 129 (50.6 of 100) leaves ZL released.
C3_Witness ==
    /\ last = Event("Absolute", "ABS_Z", 129)
    /\ ~current_input["ZL"]
    /\ pushed = <<current_input>>

\* The stick event of this step, when it processes one.
StickStep ==
    /\ Processing
    /\ ~test_mode
    /\ Head(events).ev_type = "Absolute"
    /\ Head(events).code \in DOMAIN stick_mappings

\* The stick component an axis identifier is mapped to, in Snapshot ci.
Component(ci, code) ==
    IF stick_mappings[code][2] = "x"
    THEN ci[stick_mappings[code][1]].X_VALUE
    ELSE ci[stick_mappings[code][1]].Y_VALUE

\* C4 (as claimed): a stick event with native value v in -32768..32767 sets
\* the mapped component to round(v*100/32767) clamped to [-100,100],
\* negated for a y axis.
C4_StickRounded ==
    [][StickStep =>
        LET e == Head(events)
            r == Clamp(RoundDiv(e.state * 100, 32767), -100, 100)
        IN  Component(current_input', e.code)
                = IF stick_mappings[e.code][2] = "y" THEN -r ELSE r]_vars

\* C4 (amended): a stick event with native value v in -32768..32767 sets
\* the mapped component to v*100/32767 truncated toward zero (which lies in
\* [-100,100] without clamping), negated for a y axis; 0 gives 0.
C4_StickTruncated ==
    [][StickStep =>
        LET e == Head(events)
            v == e.state
            c == Component(current_input', e.code)
            q == IF stick_mappings[e.code][2] = "y" THEN -c ELSE c
            av == IF v >= 0 THEN v ELSE -v
            aq == IF q >= 0 THEN q ELSE -q
        IN  /\ q \in -100..100
            /\ aq * 32767 <= av * 100
            /\ av * 100 < (aq + 1) * 32767
            /\ v >= 0 => q >= 0
            /\ v <= 0 => q <= 0]_vars

\* C4 witness: native value 500 on the left y axis (1.53 of 100) is
\* truncated to 1 and negated.
C4_Witness ==
    /\ last = Event("Absolute", "ABS_Y", 500)
    /\ current_input["L_STICK"].Y_VALUE = -1
    /\ pushed = <<current_input>>

\* C5: LEFT and RIGHT are never both pressed, nor UP and DOWN; a
\* horizontal hat event with value -1, 0, 1 sets (LEFT, RIGHT) to
\* (TRUE, FALSE), (FALSE, FALSE), (FALSE, TRUE), and a vertical hat event
\* sets (UP, DOWN) the same way.
C5_DpadExclusive ==
    /\ [](~(current_input["DPAD_LEFT"] /\ current_input["DPAD_RIGHT"])
            /\ ~(current_input["DPAD_UP"] /\ current_input["DPAD_DOWN"]))
    /\ [][(Processing /\ ~test_mode /\ Head(events).ev_type = "Absolute"
              /\ Head(events).code \in {"ABS_HAT0X", "ABS_HAT0Y"}
              /\ Head(events).state \in {-1, 0, 1}) =>
            LET e == Head(events)
                pair == IF e.code = "ABS_HAT0X"
                        THEN <<current_input'["DPAD_LEFT"],
                               current_input'["DPAD_RIGHT"]>>
                        ELSE <<current_input'["DPAD_UP"],
                               current_input'["DPAD_DOWN"]>>
            IN  pair = CASE e.state = -1 -> <<TRUE, FALSE>>
                         [] e.state = 0  -> <<FALSE, FALSE>>
                         [] e.state = 1  -> <<FALSE, TRUE>>]_vars

\* C5 witness: the hat was pushed left while down was held.
C5_Witness ==
    /\ ~test_mode
    /\ last = Event("Absolute", "ABS_HAT0X", -1)
    /\ current_input["DPAD_LEFT"]
    /\ ~current_input["DPAD_RIGHT"]
    /\ current_input["DPAD_DOWN"]
    /\ nproc = 2

\* C6: an event whose identifier is in no table changes no Snapshot field,
\* makes no push_input call and raises no error (the loop goes on with the
\* next event of the pull), whatever its kind and in either mode.
C6_UnmappedNoOp ==
    [][(Processing /\ Unrouted(Head(events))) =>
        /\ current_input' = current_input
        /\ npush' = npush
        /\ pushed' = pushed
        /\ wpc' = "for"
        /\ events' = Tail(events)]_vars

\* C6 witness: a synchronisation report was processed after a button press
\* had been pushed, and the pressed button is still pressed.
C6_Witness ==
    /\ ~test_mode
    /\ last = Event("Sync", "SYN_REPORT", 0)
    /\ npush = 1
    /\ nproc = 2
    /\ current_input["B"]
    /\ wpc = "for"

\* C7: processing the event that was processed last once more leaves the
\* Snapshot as the first processing left it.
C7_Idempotent ==
    [][(Processing /\ Head(events) = last) =>
        current_input' = current_input]_vars

\* C7 witness: a stick sample was processed twice in a row, after another
\* event had moved the Snapshot away from its initial state.
C7_Witness ==
    /\ ~test_mode
    /\ twice
    /\ last = Event("Absolute", "ABS_RX", 500)
    /\ current_input["R_STICK"].X_VALUE = 1
    /\ current_input["DPAD_LEFT"]
    /\ nproc = 3

-----------------------------------------------------------------------------
(* Properties of the input loop and of the lifecycle.                      *)

\* C8: while no worker thread is held (stop_input_processing has returned,
\* or the loop was never started) the worker has exited, and no step makes
\* a push_input call or changes the Snapshot until a start.
C8_StopEffective ==
    /\ [](input_thread = "None" => wpc \in {"none", "exited"})
    /\ [][(input_thread = "None" /\ input_thread' = "None") =>
            (npush' = npush /\ pushed' = pushed
               /\ current_input' = current_input /\ nproc' = nproc)]_vars

\* C8 witness: a client's stop has returned after the worker had pushed,
\* with events still to come from the device.
C8_Witness ==
    /\ cpc = "client"
    /\ input_thread = "None"
    /\ ~running
    /\ wpc = "exited"
    /\ npush = 1
    /\ nproc < MaxEvents

\* C9: an error in a pull or in an apply/push sends the worker to its
\* pause and from there to the loop condition, where it pulls again while
\* the running flag is set; it exits only at the loop condition, with the
\* flag cleared by a stop that is waiting for it.
C9_ErrorContained ==
    /\ [][(wpc \in {"pull", "for"} /\ wpc' \notin {"pull", "for", "check"})
            => (wpc' = "sleep" /\ running' = running)]_vars
    /\ [][(wpc = "sleep" /\ wpc' # "sleep") => wpc' = "check"]_vars
    /\ [][(wpc = "check" /\ running /\ wpc' # "check") => wpc' = "pull"]_vars
    /\ [][(wpc # "exited" /\ wpc' = "exited") =>
            (wpc = "check" /\ ~running
               /\ cpc \in {"join", "cleanup_join"})]_vars

\* C9 witness: a push to a crashed session failed and the worker pauses,
\* the loop still running.
C9_Witness ==
    /\ wpc = "sleep"
    /\ running
    /\ nx_state = "crashed"
    /\ pushed # << >>
    /\ events = << >>
    /\ nproc = 1

\* C10: when the polling loop of connect_controller reads 'crashed', it
\* raises ConnectionError with the endpoint's error detail; main() then
\* never starts a worker, and its cleanup releases the created session.
C10_ConnectFailure ==
    /\ [][(cpc = "poll" /\ nx_state = "crashed" /\ cpc' # cpc) =>
            (raised' = [type |-> "ConnectionError", detail |-> nx_errors]
               /\ cpc' = "cleanup")]_vars
    /\ [](raised.type = "ConnectionError" =>
            (input_thread = "None" /\ wpc = "none" /\ ~running
               /\ npush = 0 /\ raised.detail = nx_errors
               /\ raised.detail \in ErrorDetails))
    /\ []((raised.type = "ConnectionError" /\ cpc = "done") =>
            nx_state = "removed")

\* C10 witness: main() has ended after a crashed connect, the session
\* released and no worker started.
C10_Witness ==
    /\ caller = "main"
    /\ cpc = "done"
    /\ raised = [type |-> "ConnectionError", detail |-> "pairing_refused"]
    /\ nx_state = "removed"
    /\ wpc = "none"

\* C11: the session is released only from cleanup's last step, with the
\* worker finished and no thread held; after the release no event is
\* processed and no push_input call is made; with no session created,
\* cleanup calls no release and ends normally.
C11_CleanupOrder ==
    /\ [][(nx_state' = "removed" /\ nx_state # "removed") =>
            (cpc = "release" /\ input_thread = "None" /\ alive = 0
               /\ ~running)]_vars
    /\ [][nx_state = "removed" =>
            (npush' = npush /\ pushed' = pushed /\ nproc' = nproc)]_vars
    /\ [][(cpc = "release" /\ controller_idx = "None" /\ cpc' # cpc) =>
            (nx_state = "absent" /\ nx_state' = "absent"
               /\ raised' = NoException /\ cpc' = "done")]_vars

\* C11 witness: main() has ended, the session released after the worker
\* had pushed and exited, with events still to come from the device.
C11_Witness ==
    /\ cpc = "done"
    /\ nx_state = "removed"
    /\ raised = NoException
    /\ wpc = "exited"
    /\ alive = 0
    /\ npush = 1
    /\ nproc < MaxEvents

\* C12: in test mode no session is created or released, no push_input
\* call is made and the Snapshot keeps its initial value.
C12_TestModeBypass ==
    test_mode =>
        /\ nx_state = "absent"
        /\ controller_idx = "None"
        /\ npush = 0
        /\ pushed = << >>
        /\ current_input = create_input_packet

\* C12 witness: in test mode the worker processed a button press and a
\* stick sample and exited, and cleanup is at its release step.
C12_Witness ==
    /\ test_mode
    /\ cpc = "release"
    /\ wpc = "exited"
    /\ nproc = 2
    /\ last = Event("Absolute", "ABS_Y", StickRange)

\* C13 (as claimed): pending events of a pull leave the loop only by being
\* processed, one at a time from the head, whatever happened to another
\* event of the same pull.  (An exception of set_controller_input leaves
\* the for loop, and the rest of the pull is never processed.)
C13_EachEventApplied ==
    [][(events # << >> /\ events' # events) =>
        (Processing /\ events' = Tail(events))]_vars

\* The event is routed to a branch that ends in set_controller_input.
Pushing(e) ==
    \/ e.ev_type = "Key" /\ e.code \in DOMAIN button_mappings
    \/ /\ e.ev_type = "Absolute"
       /\ e.code \in DOMAIN trigger_mappings \cup DOMAIN stick_mappings

\* C14 (as claimed): a push_input call is made only by a step that changes
\* a Snapshot field.
C14_PushOnlyOnChange ==
    [][npush' # npush => current_input' # current_input]_vars

\* C14 (amended): outside test mode a push_input call is made exactly by
\* the processing of a mapped button, trigger or stick event, one call
\* carrying the Snapshot, whether or not a field changed.
C14_PushOnMappedEvent ==
    /\ [][npush' # npush =>
            (Processing /\ ~test_mode /\ Pushing(Head(events))
               /\ npush' = npush + 1 /\ pushed' = <<current_input'>>)]_vars
    /\ [][(Processing /\ ~test_mode /\ Pushing(Head(events))) =>
            npush' = npush + 1]_vars

\* C14 witness: the same button press was processed twice and pushed
\* twice.
C14_Witness ==
    /\ twice
    /\ last = Event("Key", "BTN_SOUTH", 1)
    /\ current_input["B"]
    /\ nproc = 2
    /\ npush = 2

\* C15: each of the four stick components is an integer in [-100, 100].
C15_StickRange ==
    \A s \in Sticks :
        /\ current_input[s].X_VALUE \in -100..100
        /\ current_input[s].Y_VALUE \in -100..100

\* C15 witness: both ends of the range are held, the left x axis after the
\* most negative native value and the right y axis after the most positive.
C15_Witness ==
    /\ current_input["L_STICK"].X_VALUE = -100
    /\ current_input["R_STICK"].Y_VALUE = -100
    /\ last = Event("Absolute", "ABS_RY", StickRange)
    /\ nproc = 2

\* C16: in a non-test run of main() the position of the start call is
\* reached only from a poll of connect_controller that read 'connected';
\* a poll that reads neither 'connected' nor 'crashed' goes to the 100 ms
\* pause and polls again; a worker exists, and a push_input call has been
\* made, only once main() is past that return, with a session id held
\* and no exception raised by connect.
C16_StartAfterConnected ==
    /\ [][(~test_mode /\ cpc' = "start" /\ cpc # "start") =>
            (cpc = "poll" /\ nx_state = "connected"
               /\ controller_idx # "None")]_vars
    /\ [][(cpc = "poll" /\ nx_state \notin {"connected", "crashed"}
             /\ cpc' # cpc) => cpc' = "poll_sleep"]_vars
    /\ [][(cpc = "poll_sleep" /\ cpc' # cpc) =>
            cpc' \in {"poll", "cleanup"}]_vars
    /\ [][(~test_mode /\ input_thread = "None" /\ input_thread' # "None")
            => cpc = "start"]_vars
    /\ [](~test_mode /\ (wpc # "none" \/ npush > 0 \/ input_thread # "None")
            => /\ cpc \in {"idle", "cleanup", "cleanup_join", "release",
                           "done"}
               /\ controller_idx # "None"
               /\ nx_state \in {"connected", "crashed", "removed"}
               /\ raised = NoException)

\* C16 witness: outside test mode the worker has pushed a Snapshot to the
\* connected session while main() idles.
C16_Witness ==
    /\ ~test_mode
    /\ cpc = "idle"
    /\ nx_state = "connected"
    /\ controller_idx # "None"
    /\ npush = 1
    /\ wpc = "for"

\* C17: with a fairly scheduled worker and a device pull that always
\* returns, a stop (here the one cleanup makes) returns with the worker
\* exited and the thread forgotten; the worker leaves the loop at the
\* first check that reads the cleared flag, and the error pause leads to
\* that check.
C17_StopTerminates ==
    /\ (cpc = "cleanup") ~>
           (cpc = "release" /\ wpc \in {"none", "exited"}
              /\ input_thread = "None" /\ alive = 0)
    /\ [][(wpc = "check" /\ wpc' # wpc) =>
            wpc' = (IF running THEN "pull" ELSE "exited")]_vars
    /\ [][(wpc = "sleep" /\ wpc' # wpc) => wpc' = "check"]_vars

\* C17 witness: the stop of cleanup has returned after the worker, whose
\* push to the crashed session had failed, exited.
C17_Witness ==
    /\ cpc = "release"
    /\ wpc = "exited"
    /\ ~running
    /\ input_thread = "None"
    /\ nx_state = "crashed"
    /\ npush = 2
    /\ nproc = 2

\* C18: the Snapshot changes only in a step of the worker that processes
\* an event; connect, start, stop and cleanup leave every field as it is.
C18_SnapshotSingleWriter ==
    /\ [][current_input' # current_input =>
            (Processing /\ wpc = "for" /\ cpc' = cpc)]_vars
    /\ [][cpc' # cpc => current_input' = current_input]_vars

\* C18 witness: connect, start, stop and cleanup have all returned and
\* the Snapshot still holds the button the worker pressed.
C18_Witness ==
    /\ cpc = "client"
    /\ nx_state = "removed"
    /\ wpc = "exited"
    /\ input_thread = "None"
    /\ current_input["B"]
    /\ nproc = 1

\* C19 (as claimed): no step of the control context writes the running
\* flag.  (start sets it and stop clears it.)
C19_RunningWorkerOnly ==
    [][running' # running => cpc' = cpc]_vars

\* C19 (amended): the running flag is written only by the control
\* context, set by start when it spawns the worker and cleared by stop
\* (called directly or by cleanup); no step of the worker writes it.
C19_RunningControlOnly ==
    /\ [][running' # running =>
            \/ cpc = "start" /\ input_thread = "None" /\ running'
            \/ cpc \in {"stop", "cleanup"} /\ ~running']_vars
    /\ [][cpc' = cpc => running' = running]_vars

\* C19 witness: stop has cleared the flag while the worker, in the middle
\* of its for loop, has not yet read it.
C19_Witness ==
    /\ ~running
    /\ cpc = "join"
    /\ wpc = "for"
    /\ events # << >>
    /\ input_thread = "Thread"

\* C20: at most one worker is alive; a start while a thread is held
\* changes nothing; a start with no thread held, where no worker is
\* alive, spawns one worker with the running flag set.
C20_AtMostOneWorker ==
    /\ [](alive \in {0, 1})
    /\ [](input_thread = "None" => alive = 0)
    /\ [][(cpc = "start" /\ input_thread # "None" /\ cpc' # cpc) =>
            UNCHANGED <<running, input_thread, wrk>>]_vars
    /\ [][(cpc = "start" /\ input_thread = "None" /\ cpc' # cpc) =>
            (alive' = 1 /\ running' /\ input_thread' = "Thread"
               /\ wpc' = "check")]_vars

\* C20 witness: after cleanup stopped the first worker and released the
\* session, a second start has spawned a worker, the only one alive.
C20_Witness ==
    /\ nx_state = "removed"
    /\ alive = 1
    /\ running
    /\ input_thread = "Thread"
    /\ wpc = "pull"
    /\ cpc = "client"

====
